---- MODULE Spec2Model ----
(***************************************************************************)
(* Model of the generational step of the NEAT population (population.go): *)
(* initialPopulation, rollPop, tournament, speciate and Population.MPC.   *)
(* Floating-point fitness values are modelled by small naturals and       *)
(* probabilities by percentages.                                          *)
(***************************************************************************)
EXTENDS Integers, Sequences, FiniteSets, TLC

\* ---------------------------------------------------------------- bounds
PopSize == 3     \* settings.PopulationSize
MaxElite == 2    \* largest settings.EliteCount tried
MaxFit == 1      \* largest primary fitness attached to an organism
MaxG == 1        \* genomes are abstracted to classes 0..MaxG
MaxGen == 3      \* rollPop is not called once Generation reaches MaxGen
MaxMpcOrgs == 2  \* most organisms per species handed to MPC
MaxPool == 3     \* most organisms in a pool handed to tournament alone
MaxTotFit == 6   \* largest totFit handed to tournament alone

Genomes == 0..MaxG
FitVals == 0..MaxFit
SurvivalPercents == {0, 50, 100}
Draws == {0, 99}   \* random.Next() / random.Float64() in [0,1), as percent
NodeCounts == {2, 3}     \* len(o.Nodes) of the organisms handed to MPC
ConnCounts == {3, 4}     \* len(o.Conns) of the organisms handed to MPC
MpcSpeciesCounts == {0, 1, 2}
TourFits == {0, 1, 2}    \* primary fitness of the organisms handed to tournament alone

VARIABLES
    pc,          \* position of the caller / of rollPop
    settings,    \* *Settings
    nextId,      \* the innovation counter behind inno.nextID()
    pop,         \* the population object the caller holds (rollPop's input)
    err,         \* error returned by initialPopulation
    pop0,        \* the input population as it was when rollPop was called
    nextPop,     \* rollPop: nextPop
    bestSpecies, \* rollPop: index in pop.Species of bestSpecies, 0 = nil
    living,      \* rollPop: indices in pop.Species of the living species
    adjFit,      \* rollPop: adjFit
    popFit,      \* rollPop: popFit
    children,    \* rollPop: children
    li,          \* rollPop: position of the range loop over living
    cnt,         \* rollPop: cnt of the current species
    slot,        \* rollPop: i of the offspring loop
    resets,      \* number of inno.reset() calls of this rollPop
    crossPicked, \* ids of organisms handed to crossover in this rollPop
    slotCross,   \* IDs of species whose own slot loop ran crossover
    champs,      \* the organisms the tournament calls of the last slot returned
    steps,       \* number of rollPop calls that have returned
    mpcIn,       \* the population handed to MPC
    mpcOut,      \* MPC's result as a fraction <<tot, cnt>>, <<>> before the call
    tourIn,      \* the arguments and the draw of a tournament call
    tourOut      \* <<champ>> once tournament has returned, <<>> before

vars == <<pc, settings, nextId, pop, err, pop0, nextPop, bestSpecies, living,
          adjFit, popFit, children, li, cnt, slot, resets, crossPicked,
          slotCross, champs, steps, mpcIn, mpcOut, tourIn, tourOut>>

rollVars == <<pop0, nextPop, bestSpecies, living, adjFit, popFit, children,
              li, cnt, slot, resets, crossPicked, slotCross, champs>>

mpcVars == <<mpcIn, mpcOut>>

tourVars == <<tourIn, tourOut>>

queryVars == <<mpcVars, tourVars>>

\* ---------------------------------------------------------------- data
NilOrg == [id |-> 0, fit |-> 0, g |-> 0]
NilPop == [Generation |-> 0, Species |-> <<>>]

NewSpecies(id, orgs, age, bestFitness, bestFitAge, example) ==
    [ID |-> id, Orgs |-> orgs, Age |-> age, BestFitness |-> bestFitness,
     BestFitAge |-> bestFitAge, Example |-> example, currFitness |-> 0]

Min(a, b) == IF a < b THEN a ELSE b

Range(s) == {s[k] : k \in 1..Len(s)}

RECURSIVE TotalFitness(_)
TotalFitness(orgs) ==
    IF orgs = <<>> THEN 0 ELSE Head(orgs).fit + TotalFitness(Tail(orgs))

RECURSIVE Flatten(_)
Flatten(species) ==
    IF species = <<>> THEN <<>> ELSE Head(species).Orgs \o Flatten(Tail(species))

Organisms(p) == Flatten(p.Species)

\* ---------------------------------------------------------------- helpers
\* sort.Sort(sort.Reverse(s.Orgs)): for slices shorter than 12 the library
\* runs an insertion sort, which keeps the order of equal elements.
RECURSIVE InsertDesc(_, _)
InsertDesc(sorted, o) ==
    IF sorted = <<>> THEN <<o>>
    ELSE IF Head(sorted).fit >= o.fit
         THEN <<Head(sorted)>> \o InsertDesc(Tail(sorted), o)
         ELSE <<o>> \o sorted

RECURSIVE SortFrom(_, _)
SortFrom(done, rest) ==
    IF rest = <<>> THEN done
    ELSE SortFrom(InsertDesc(done, Head(rest)), Tail(rest))

SortDesc(orgs) == SortFrom(<<>>, orgs)

\* keep := int(SurvivalPercent * len); raised to EliteCount; capped at len
KeepCount(n) ==
    LET k0 == (settings.SurvivalPercent * n) \div 100
        k1 == IF k0 < settings.EliteCount THEN settings.EliteCount ELSE k0
    IN  IF k1 > n THEN n ELSE k1

\* the gate without the protection of the best species
GateStagnationOnly(s, bestID) ==
    s.Age - s.BestFitAge < settings.AgeToStagnation

\* the gate letting every species through
GateOpen(s, bestID) == TRUE

\* the condition of the extinction gate; bestID is bestSpecies.ID
Gate(s, bestID) ==
    s.ID = bestID \/ s.Age - s.BestFitAge < settings.AgeToStagnation

RECURSIVE MaxMemberFit(_)
MaxMemberFit(orgs) ==
    IF orgs = <<>> THEN 0
    ELSE LET m == MaxMemberFit(Tail(orgs))
         IN  IF Head(orgs).fit > m THEN Head(orgs).fit ELSE m

\* Species.calcFitness: the aggregated fitness of the members, and the
\* record of the best member fitness seen and the age it was seen at
CalcFitness(s) ==
    LET best == MaxMemberFit(s.Orgs)
    IN  [s EXCEPT !.currFitness = TotalFitness(s.Orgs),
                  !.BestFitness = IF best > @ THEN best ELSE @,
                  !.BestFitAge = IF best > s.BestFitness THEN s.Age ELSE @]

\* the scan for bestSpecies: a strictly greater fitness replaces the best
RECURSIVE ScanOrgs(_, _, _)
ScanOrgs(orgs, si, acc) ==
    IF orgs = <<>> THEN acc
    ELSE ScanOrgs(Tail(orgs), si,
                  IF Head(orgs).fit > acc.bestFit
                  THEN [bestFit |-> Head(orgs).fit, best |-> si]
                  ELSE acc)

RECURSIVE ScanSpecies(_, _, _)
ScanSpecies(species, si, acc) ==
    IF si > Len(species) THEN acc
    ELSE ScanSpecies(species, si + 1, ScanOrgs(species[si].Orgs, si, acc))

BestScan(species) == ScanSpecies(species, 1, [bestFit |-> 0, best |-> 0])

\* the loop "Allow viable species to continue to live but cull their numbers".
\* acc.species is currPop.Species, culled in place; exf[i] is random.Int(keep)+1
\* for species i. With keep = 0 the index s.Orgs[random.Int(0)] is out of
\* range and the loop stops there (acc.panic).
RECURSIVE CullLoop(_, _, _, _)
CullLoop(acc, i, bestID, exf) ==
    IF i > Len(acc.species) THEN acc
    ELSE LET s == acc.species[i]
             keep == KeepCount(Len(s.Orgs))
             kept == SubSeq(SortDesc(s.Orgs), 1, keep)
         IN  IF ~Gate(s, bestID) THEN CullLoop(acc, i + 1, bestID, exf)
             ELSE IF keep = 0
             THEN [acc EXCEPT !.species[i].Orgs = <<>>,
                              !.living = Append(@, i),
                              !.adjFit = @ + s.currFitness,
                              !.panic = TRUE]
             ELSE CullLoop([acc EXCEPT !.species[i].Orgs = kept,
                                       !.species[i].Example = kept[exf[i]],
                                       !.living = Append(@, i),
                                       !.adjFit = @ + s.currFitness,
                                       !.popFit = @ + TotalFitness(kept)],
                           i + 1, bestID, exf)

\* the values random.Int(keep) can take for each species of the list
ExampleDraws(species, bestID) ==
    {exf \in [1..Len(species) -> 1..PopSize] :
        \A i \in 1..Len(species) :
            LET keep == KeepCount(Len(species[i].Orgs))
            IN  exf[i] <= (IF Gate(species[i], bestID) /\ keep > 0 THEN keep ELSE 1)}

\* living.Organisms(settings): the organisms of the living species, in order
RECURSIVE LivingOrgs(_, _)
LivingOrgs(species, liv) ==
    IF liv = <<>> THEN <<>>
    ELSE species[Head(liv)].Orgs \o LivingOrgs(species, Tail(liv))

popOrgs == LivingOrgs(pop.Species, living)

\* tgt stands for random.Next() * totFit, a real in [0, totFit), rounded up
TournamentTargets(totFit) == 0..totFit

\* the walk comparing with > in place of >=
RECURSIVE TournamentWalkStrict(_, _, _)
TournamentWalkStrict(orgs, sum, tgt) ==
    IF orgs = <<>> THEN NilOrg
    ELSE IF sum + Head(orgs).fit > tgt THEN Head(orgs)
         ELSE TournamentWalkStrict(Tail(orgs), sum + Head(orgs).fit, tgt)

\* the walk that does not accumulate
RECURSIVE TournamentWalkNoSum(_, _, _)
TournamentWalkNoSum(orgs, sum, tgt) ==
    IF orgs = <<>> THEN NilOrg
    ELSE IF Head(orgs).fit >= tgt THEN Head(orgs)
         ELSE TournamentWalkNoSum(Tail(orgs), sum, tgt)

RECURSIVE TournamentWalk(_, _, _)
TournamentWalk(orgs, sum, tgt) ==
    IF orgs = <<>> THEN NilOrg
    ELSE IF sum + Head(orgs).fit >= tgt THEN Head(orgs)
         ELSE TournamentWalk(Tail(orgs), sum + Head(orgs).fit, tgt)

tournament(orgs, tgt) == TournamentWalk(orgs, 0, tgt)

\* distance(settings, a, b) over the genome classes
distance(a, b) == IF a.g >= b.g THEN a.g - b.g ELSE b.g - a.g

\* cloneOrg(p, id): a copy of p under a fresh id, not yet evaluated
cloneOrg(p, id) == [id |-> id, fit |-> 0, g |-> p.g]

\* crossover(inno, p1, p2): a new organism built from the genes of the parents
crossover(p1, p2, id) == [id |-> id, fit |-> 0, g |-> p1.g]

\* mutate(settings, inno, child): the genome moves to any class, its own included
mutate(child, g) == [child EXCEPT !.g = g]

\* the seed genome of initialGenome, cloned under the id given
SeedOrg(id) == [id |-> id, fit |-> 0, g |-> 0]

\* the scan accepting a distance equal to the threshold
RECURSIVE FirstWithinOrAt(_, _, _)
FirstWithinOrAt(species, child, k) ==
    IF k > Len(species) THEN 0
    ELSE IF distance(child, species[k].Example) <= settings.CompatThreshold THEN k
         ELSE FirstWithinOrAt(species, child, k + 1)

\* index of the first species whose Example is closer than CompatThreshold, 0 if none
RECURSIVE FirstCompatible(_, _, _)
FirstCompatible(species, child, k) ==
    IF k > Len(species) THEN 0
    ELSE IF distance(child, species[k].Example) < settings.CompatThreshold THEN k
         ELSE FirstCompatible(species, child, k + 1)

\* the species without its ID
newSNoID(id, child) == NewSpecies(0, <<child>>, 0, 0, 0, child)

\* the species without its Example
newSNoExample(id, child) == NewSpecies(id, <<child>>, 0, 0, 0, NilOrg)

\* newS of speciate: a species under the ID given, the child its only
\* member and its Example
newS(id, child) == NewSpecies(id, <<child>>, 0, 0, 0, child)

\* speciate: acc.species is pop.Species, acc.next the innovation counter
RECURSIVE speciate(_, _)
speciate(acc, kids) ==
    IF kids = <<>> THEN acc
    ELSE LET child == Head(kids)
             k == FirstCompatible(acc.species, child, 1)
         IN  IF k > 0
             THEN speciate([acc EXCEPT !.species[k].Orgs = Append(@, child)],
                           Tail(kids))
             ELSE speciate([species |-> Append(acc.species, newS(acc.next, child)),
                            next |-> acc.next + 1],
                           Tail(kids))

\* the prune keeping every species
PruneNothing(species) == species

\* "Prune off species which are empty"
RECURSIVE PruneEmpty(_)
PruneEmpty(species) ==
    IF species = <<>> THEN <<>>
    ELSE IF Len(Head(species).Orgs) > 0
         THEN <<Head(species)>> \o PruneEmpty(Tail(species))
         ELSE PruneEmpty(Tail(species))

\* the truncation left out
TruncateNothing(kids) == kids

\* children[:settings.PopulationSize]
Truncate(kids) == SubSeq(kids, 1, settings.PopulationSize)

\* the branch without the test for a single survivor
MutateOnlyByDraw(orgs, r) == r > settings.Crossover

\* the mutate-only branch of an offspring slot; r is random.Next()
MutateOnly(orgs, r) == Len(orgs) = 1 \/ r > settings.Crossover

\* Population.MPC over organisms [nodes, conns]: the fraction tot / cnt
RECURSIVE GeneTotal(_)
GeneTotal(orgs) ==
    IF orgs = <<>> THEN 0
    ELSE Head(orgs).nodes + Head(orgs).conns + GeneTotal(Tail(orgs))

RECURSIVE MPCLoop(_, _)
MPCLoop(species, acc) ==
    IF species = <<>> THEN acc
    ELSE MPCLoop(Tail(species),
                 [tot |-> acc.tot + GeneTotal(Head(species)), cnt |-> acc.cnt + 1])

MPC(p) == LET r == MPCLoop(p, [tot |-> 0, cnt |-> 0]) IN <<r.tot, r.cnt>>

\* ---------------------------------------------------------------- state
SettingsSpace ==
    [PopulationSize : {PopSize},
     EliteCount : 0..MaxElite,
     SurvivalPercent : SurvivalPercents,
     AgeToStagnation : {1},
     Crossover : {50},
     InterspeciesMating : {50},
     CompatThreshold : {1}]

RollInit ==
    /\ pop0 = NilPop
    /\ nextPop = NilPop
    /\ bestSpecies = 0
    /\ living = <<>>
    /\ adjFit = 0
    /\ popFit = 0
    /\ children = <<>>
    /\ li = 0
    /\ cnt = 0
    /\ slot = 0
    /\ resets = 0
    /\ crossPicked = {}
    /\ slotCross = {}
    /\ champs = {}

Init ==
    /\ pc = "start"
    /\ settings \in SettingsSpace
    /\ nextId = 1
    /\ pop = NilPop
    /\ err = FALSE
    /\ RollInit
    /\ steps = 0
    /\ mpcIn = <<>>
    /\ mpcOut = <<>>
    /\ tourIn = <<>>
    /\ tourOut = <<>>

\* ---------------------------------------------------------------- initialPopulation
\* the population as built before initialGenome is called: one species whose
\* Orgs are PopulationSize unset slots
EmptySlots == [k \in 1..settings.PopulationSize |-> NilOrg]

\* initialGenome succeeds: every slot gets a clone with a fresh id
InitialPopulationOk ==
    /\ pc = "start"
    /\ pop' = [Generation |-> 1,
               Species |-> <<NewSpecies(nextId,
                               [k \in 1..settings.PopulationSize |->
                                   SeedOrg(nextId + k)],
                               0, 0, 0, NilOrg)>>]
    /\ nextId' = nextId + settings.PopulationSize + 1
    /\ err' = FALSE
    /\ pc' = "created"
    /\ UNCHANGED <<settings, rollVars, steps, queryVars>>

\* initialGenome fails: err = e2 and the bare return hands back pop as it is
InitialPopulationErr ==
    /\ pc = "start"
    /\ pop' = [Generation |-> 1,
               Species |-> <<NewSpecies(nextId, EmptySlots, 0, 0, 0, NilOrg)>>]
    /\ nextId' = nextId + 1
    /\ err' = TRUE
    /\ pc' = "failed"
    /\ UNCHANGED <<settings, rollVars, steps, queryVars>>

\* ---------------------------------------------------------------- the caller
\* position of the organism with this id in a sequence, 0 if absent
IndexOf(orgs, id) ==
    IF \E k \in 1..Len(orgs) : orgs[k].id = id
    THEN CHOOSE k \in 1..Len(orgs) : orgs[k].id = id
    ELSE 0

\* organism objects are shared: an Example that is still a member of the
\* population sees the fitness written to that member
WithFitness(p, f) ==
    LET flat == Organisms(p)
        refit(o) == IF IndexOf(flat, o.id) > 0
                    THEN [o EXCEPT !.fit = f[IndexOf(flat, o.id)]]
                    ELSE o
    IN  [p EXCEPT !.Species =
            [i \in 1..Len(p.Species) |->
                [p.Species[i] EXCEPT
                    !.Orgs = [k \in 1..Len(p.Species[i].Orgs) |->
                                 refit(p.Species[i].Orgs[k])],
                    !.Example = refit(@)]]]

\* the caller takes the population it was handed, evaluates every organism
\* and is then ready to roll it
Evaluate ==
    /\ pc \in {"created", "done"}
    /\ LET p == IF pc = "done" THEN nextPop ELSE pop
           n == Len(Organisms(p))
       IN  /\ p.Generation < MaxGen
           /\ \E f \in [1..n -> FitVals] :
                pop' = WithFitness(p, f)
    /\ pc' = "ready"
    /\ pop0' = NilPop /\ nextPop' = NilPop /\ bestSpecies' = 0 /\ living' = <<>>
    /\ adjFit' = 0 /\ popFit' = 0 /\ children' = <<>> /\ li' = 0 /\ cnt' = 0
    /\ slot' = 0 /\ resets' = 0 /\ crossPicked' = {}
    /\ slotCross' = {} /\ champs' = {}
    /\ UNCHANGED <<settings, nextId, err, steps, queryVars>>

\* ---------------------------------------------------------------- rollPop
\* currPop.Species after the calcFitness loop
Calculated == [i \in 1..Len(pop.Species) |-> CalcFitness(pop.Species[i])]

\* the next population with the generation counter left as it is
NewNextPopSameGeneration == [Generation |-> pop.Generation, Species |-> <<>>]

\* lines 73-74: nextPop = &Population{Generation: currPop.Generation + 1, ...}
NewNextPop == [Generation |-> pop.Generation + 1, Species |-> <<>>]

CullStart ==
    [species |-> Calculated, living |-> <<>>, adjFit |-> 0, popFit |-> 0,
     panic |-> FALSE]

\* lines 72-114 with no organism of positive fitness: bestSpecies stays nil
\* and bestSpecies.ID in the gate dereferences it
RollNilBest ==
    /\ pc = "ready"
    /\ BestScan(Calculated).best = 0
    /\ pop0' = pop
    /\ nextPop' = NewNextPop
    /\ pop' = [pop EXCEPT !.Species = Calculated]
    /\ pc' = "panicNilBest"
    /\ UNCHANGED <<settings, nextId, err, bestSpecies, living, adjFit, popFit,
                   children, li, cnt, slot, resets, crossPicked,
                   slotCross,
                   champs, steps, queryVars>>

\* lines 72-114: the new population, the fitness scan, the gate and the cull
RollCull ==
    /\ pc = "ready"
    /\ LET best == BestScan(Calculated).best
       IN  /\ best # 0
           /\ \E exf \in ExampleDraws(Calculated, Calculated[best].ID) :
                LET r == CullLoop(CullStart, 1, Calculated[best].ID, exf)
                IN  /\ pop' = [pop EXCEPT !.Species = r.species]
                    /\ living' = r.living
                    /\ adjFit' = r.adjFit
                    /\ popFit' = r.popFit
                    /\ pc' = IF r.panic THEN "panicKeep" ELSE "reset"
           /\ bestSpecies' = best
    /\ pop0' = pop
    /\ nextPop' = NewNextPop
    /\ UNCHANGED <<settings, nextId, err, children, li, cnt, slot, resets,
                   crossPicked, slotCross,
                   champs, steps, queryVars>>

\* the step without the call of inno.reset()
ResetMissing ==
    /\ pc = "reset"
    /\ children' = <<>>
    /\ li' = 1
    /\ pc' = "species"
    /\ UNCHANGED <<settings, nextId, pop, err, pop0, nextPop, bestSpecies,
                   living, adjFit, popFit, cnt, slot, resets, crossPicked,
                   slotCross, champs, steps, queryVars>>

\* lines 117-118: inno.reset() and the empty children slice
Reset ==
    /\ pc = "reset"
    /\ resets' = resets + 1
    /\ children' = <<>>
    /\ li' = 1
    /\ pc' = "species"
    /\ UNCHANGED <<settings, nextId, pop, err, pop0, nextPop, bestSpecies,
                   living, adjFit, popFit, cnt, slot, crossPicked,
                   slotCross,
                   champs, steps, queryVars>>

currS == pop.Species[living[li]]

\* the budget taken over the fitness of the survivors
BudgetOverPopFit(s) == (s.currFitness * settings.PopulationSize) \div popFit

\* cnt := int(currS.currFitness / adjFit * float64(PopulationSize))
Budget(s) == (s.currFitness * settings.PopulationSize) \div adjFit

\* the number of organisms the elite loop copies
EliteTaken(s) == Min(settings.EliteCount, Len(s.Orgs))

\* lines 122-134: the species entry of the next population and the elite
CopySpecies ==
    /\ pc = "species"
    /\ li <= Len(living)
    /\ nextPop' = [nextPop EXCEPT !.Species =
                      Append(@, NewSpecies(currS.ID, <<>>, currS.Age + 1,
                                           currS.BestFitness, currS.BestFitAge,
                                           currS.Example))]
    /\ children' = children \o SubSeq(currS.Orgs, 1, EliteTaken(currS))
    /\ cnt' = Budget(currS) - EliteTaken(currS)
    /\ slot' = 0
    /\ pc' = "offspring"
    /\ UNCHANGED <<settings, nextId, pop, err, pop0, bestSpecies, living,
                   adjFit, popFit, li, resets, crossPicked,
                   slotCross,
                   champs, steps, queryVars>>

orgFit == TotalFitness(currS.Orgs)

\* lines 141-143: the slot is left to the top-up below
SlotSkip ==
    /\ pc = "offspring"
    /\ slot < cnt
    /\ \E r \in Draws : r < settings.InterspeciesMating
    /\ slot' = slot + 1
    /\ UNCHANGED <<settings, nextId, pop, err, pop0, nextPop, bestSpecies,
                   living, adjFit, popFit, children, li, cnt, resets,
                   crossPicked, slotCross, pc,
                   champs, steps, queryVars>>

\* lines 146-152: parent 1 is cloned and mutated
SlotMutate ==
    /\ pc = "offspring"
    /\ slot < cnt
    /\ \E r \in Draws : ~(r < settings.InterspeciesMating)
    /\ \E r \in Draws : MutateOnly(currS.Orgs, r)
    /\ \E tgt \in TournamentTargets(orgFit), g \in Genomes :
         LET p1 == tournament(currS.Orgs, tgt)
         IN  /\ children' = Append(children, mutate(cloneOrg(p1, nextId), g))
             /\ champs' = {p1}
    /\ nextId' = nextId + 1
    /\ slot' = slot + 1
    /\ UNCHANGED <<settings, pop, err, pop0, nextPop, bestSpecies, living,
                   adjFit, popFit, li, cnt, resets, crossPicked, slotCross,
                   pc, steps, queryVars>>

\* lines 146-167: parent 1 and a mate are crossed over and the child mutated
SlotCrossover ==
    /\ pc = "offspring"
    /\ slot < cnt
    /\ \E r \in Draws : ~(r < settings.InterspeciesMating)
    /\ \E r \in Draws : ~MutateOnly(currS.Orgs, r)
    /\ \E tgt1 \in TournamentTargets(orgFit), r \in Draws, g \in Genomes :
         LET p1 == tournament(currS.Orgs, tgt1)
             inter == r < settings.InterspeciesMating
         IN  \E tgt2 \in TournamentTargets(IF inter THEN popFit ELSE orgFit) :
               LET p2 == IF inter THEN tournament(popOrgs, tgt2)
                         ELSE tournament(currS.Orgs, tgt2)
               IN  /\ children' = Append(children, mutate(crossover(p1, p2, nextId), g))
                   /\ crossPicked' = crossPicked \cup {p1.id, p2.id}
                   /\ champs' = {p1, p2}
    /\ slotCross' = slotCross \cup {currS.ID}
    /\ nextId' = nextId + 1
    /\ slot' = slot + 1
    /\ UNCHANGED <<settings, pop, err, pop0, nextPop, bestSpecies, living,
                   adjFit, popFit, li, cnt, resets, pc, steps, queryVars>>

\* lines 171-172: too many children
EnsureTruncate ==
    /\ pc = "offspring"
    /\ slot >= cnt
    /\ Len(children) > settings.PopulationSize
    /\ children' = Truncate(children)
    /\ pc' = "next"
    /\ UNCHANGED <<settings, nextId, pop, err, pop0, nextPop, bestSpecies,
                   living, adjFit, popFit, li, cnt, slot, resets, crossPicked, slotCross,
                   champs, steps, queryVars>>

\* lines 174-181: one turn of the top-up loop
EnsureTopUp ==
    /\ pc = "offspring"
    /\ slot >= cnt
    /\ Len(children) < settings.PopulationSize
    /\ \E tgt1 \in TournamentTargets(popFit), tgt2 \in TournamentTargets(popFit),
          g \in Genomes :
         LET p1 == tournament(popOrgs, tgt1)
             p2 == tournament(popOrgs, tgt2)
         IN  /\ children' = Append(children, mutate(crossover(p1, p2, nextId), g))
             /\ crossPicked' = crossPicked \cup {p1.id, p2.id}
             /\ champs' = {p1, p2}
    /\ nextId' = nextId + 1
    /\ UNCHANGED <<settings, pop, err, pop0, nextPop, bestSpecies, living,
                   adjFit, popFit, li, cnt, slot, resets, slotCross, pc,
                   steps, queryVars>>

\* line 184: the species is done once the children number PopulationSize
EndSpecies ==
    /\ \/ pc = "next"
       \/ pc = "offspring" /\ slot >= cnt
          /\ Len(children) = settings.PopulationSize
    /\ li' = li + 1
    /\ champs' = {}
    /\ pc' = "species"
    /\ UNCHANGED <<settings, nextId, pop, err, pop0, nextPop, bestSpecies,
                   living, adjFit, popFit, children, cnt, slot, resets,
                   crossPicked, slotCross, steps, queryVars>>

\* line 187: speciate(settings, inno, nextPop, children)
Speciate ==
    /\ pc = "species"
    /\ li > Len(living)
    /\ LET r == speciate([species |-> nextPop.Species, next |-> nextId], children)
       IN  /\ nextPop' = [nextPop EXCEPT !.Species = r.species]
           /\ nextId' = r.next
    /\ pc' = "prune"
    /\ UNCHANGED <<settings, pop, err, pop0, bestSpecies, living, adjFit,
                   popFit, children, li, cnt, slot, resets, crossPicked, slotCross,
                   champs, steps, queryVars>>

\* lines 190-199: the empty species are pruned and nextPop is returned. The
\* code builds the pruned list in the local living, which nothing reads
\* afterwards; the variable living keeps the gate's result here.
Prune ==
    /\ pc = "prune"
    /\ nextPop' = [nextPop EXCEPT !.Species = PruneEmpty(@)]
    /\ pc' = "done"
    /\ steps' = steps + 1
    /\ UNCHANGED <<settings, nextId, pop, err, pop0, bestSpecies, living,
                   adjFit, popFit, children, li, cnt, slot, resets,
                   crossPicked, slotCross, champs, queryVars>>

Next ==
    \/ InitialPopulationOk
    \/ InitialPopulationErr
    \/ Evaluate
    \/ RollNilBest
    \/ RollCull
    \/ Reset
    \/ CopySpecies
    \/ SlotSkip
    \/ SlotMutate
    \/ SlotCrossover
    \/ EnsureTruncate
    \/ EnsureTopUp
    \/ EndSpecies
    \/ Speciate
    \/ Prune

Spec == Init /\ [][Next]_vars

\* ---------------------------------------------------------------- MPC
MpcOrgs == [nodes : NodeCounts, conns : ConnCounts]

SeqsUpTo(S, n) == UNION {[1..k -> S] : k \in 0..n}

MpcSpecies == SeqsUpTo(MpcOrgs, MaxMpcOrgs)

MpcInputs == UNION {[1..k -> MpcSpecies] : k \in MpcSpeciesCounts}

InitMPC ==
    /\ pc = "mpc"
    /\ settings = CHOOSE st \in SettingsSpace : st.EliteCount = 0 /\ st.SurvivalPercent = 0
    /\ nextId = 1
    /\ pop = NilPop
    /\ err = FALSE
    /\ RollInit
    /\ steps = 0
    /\ mpcIn \in MpcInputs
    /\ mpcOut = <<>>
    /\ tourIn = <<>>
    /\ tourOut = <<>>

CallMPC ==
    /\ pc = "mpc"
    /\ mpcOut = <<>>
    /\ mpcOut' = MPC(mpcIn)
    /\ UNCHANGED <<pc, settings, nextId, pop, err, rollVars, steps, mpcIn, tourVars>>

NextMPC == CallMPC

SpecMPC == InitMPC /\ [][NextMPC]_vars

\* ---------------------------------------------------------------- tournament
\* pools of up to MaxPool organisms, the organism at position k under id k
TourPools ==
    UNION {{[k \in 1..n |-> [id |-> k, fit |-> f[k], g |-> 0]] :
               f \in [1..n -> TourFits]} : n \in 0..MaxPool}

\* a pool, the totFit handed in, and the target drawn for it
TourInputs ==
    {[orgs |-> o, totFit |-> t, tgt |-> x] :
        o \in TourPools, t \in 0..MaxTotFit, x \in 0..MaxTotFit}

InitTournament ==
    /\ pc = "tournament"
    /\ settings = CHOOSE st \in SettingsSpace : st.EliteCount = 0 /\ st.SurvivalPercent = 0
    /\ nextId = 1
    /\ pop = NilPop
    /\ err = FALSE
    /\ RollInit
    /\ steps = 0
    /\ mpcIn = <<>>
    /\ mpcOut = <<>>
    /\ tourIn \in {i \in TourInputs : i.tgt \in TournamentTargets(i.totFit)}
    /\ tourOut = <<>>

CallTournament ==
    /\ pc = "tournament"
    /\ tourOut = <<>>
    /\ tourOut' = <<tournament(tourIn.orgs, tourIn.tgt)>>
    /\ UNCHANGED <<pc, settings, nextId, pop, err, rollVars, steps, mpcVars, tourIn>>

NextTournament == CallTournament

SpecTournament == InitTournament /\ [][NextTournament]_vars

\* ---------------------------------------------------------------- claims
SpeciesIDs(species) == {species[k].ID : k \in 1..Len(species)}

Returned == pc = "done"

\* rollPop is past the gate loop and has not failed
Rolling == pc \in {"reset", "species", "offspring", "next", "prune", "done"}

\* C1: every population rollPop returns holds exactly PopulationSize
\* organisms, summed over its species.
C1_PopulationSizeConserved ==
    Returned => Len(Organisms(nextPop)) = settings.PopulationSize

C1_Witness ==
    /\ Returned
    /\ nextPop.Generation = 3
    /\ Len(living) >= 2
    /\ Len(nextPop.Species) >= 2

\* C2: every elite of every living species (the first min(EliteCount, keep)
\* organisms after the sort) is a member of the species with the same ID in
\* the population returned.
C2_ElitesInOwnSpecies ==
    Returned =>
        \A n \in 1..Len(living) :
            LET s == pop.Species[living[n]]
            IN  \A k \in 1..EliteTaken(s) :
                    \E j \in 1..Len(nextPop.Species) :
                        /\ nextPop.Species[j].ID = s.ID
                        /\ s.Orgs[k] \in Range(nextPop.Species[j].Orgs)

\* C3: the protected species passes the extinction gate whatever its
\* stagnation age: it is in the living set once the gate loop has run, and
\* it has a carried-over entry with its ID once the species loop has run.
C3_ProtectedSurvives ==
    /\ Rolling => \E n \in 1..Len(living) : living[n] = bestSpecies
    /\ pc = "prune" => pop.Species[bestSpecies].ID \in SpeciesIDs(nextPop.Species)

C3_Witness ==
    /\ pc = "prune"
    /\ Len(pop.Species) >= 2
    /\ pop.Species[bestSpecies].Age - pop.Species[bestSpecies].BestFitAge
           >= settings.AgeToStagnation

\* C4: after culling every living species retains exactly keepCount
\* organisms, keepCount = max(EliteCount, floor(SurvivalPercent * size))
\* clamped to [1, size], ordered by fitness descending.
ClaimedKeepCount(n) ==
    LET k0 == (settings.SurvivalPercent * n) \div 100
        k1 == IF k0 < settings.EliteCount THEN settings.EliteCount ELSE k0
        k2 == IF k1 < 1 THEN 1 ELSE k1
    IN  IF k2 > n THEN n ELSE k2

Descending(orgs) == \A k \in 1..(Len(orgs) - 1) : orgs[k].fit >= orgs[k + 1].fit

C4_KeepCountClamped ==
    pc \in {"panicKeep", "reset"} =>
        \A n \in 1..Len(living) :
            /\ Len(pop.Species[living[n]].Orgs)
                   = ClaimedKeepCount(Len(pop0.Species[living[n]].Orgs))
            /\ Descending(pop.Species[living[n]].Orgs)

\* C5: no species of a population rollPop returns is empty, the carried-over
\* species that received no child included.
C5_NoEmptySpecies ==
    Returned => \A j \in 1..Len(nextPop.Species) : Len(nextPop.Species[j].Orgs) > 0

C5_Witness ==
    /\ Returned
    /\ \E n \in 1..Len(living) :
           pop.Species[living[n]].ID \notin SpeciesIDs(nextPop.Species)

\* C6: speciate puts each child in exactly one species: the first species in
\* order whose Example is closer than CompatThreshold, or else a new species
\* with a fresh ID, the child as its first member and as its Example.
Holders(child) ==
    {j \in 1..Len(nextPop.Species) : child \in Range(nextPop.Species[j].Orgs)}

Founds(child, j) == j > Len(living) /\ nextPop.Species[j].Orgs[1] = child

C7_NoPartialPopulation ==
    pc = "failed" => err /\ pop = NilPop

\* C8: rollPop leaves its input as it was: Generation, the species list, and
\* each species' organism sequence and Example.
C8_InputUntouched ==
    Returned =>
        /\ pop.Generation = pop0.Generation
        /\ Len(pop.Species) = Len(pop0.Species)
        /\ \A i \in 1..Len(pop.Species) :
               /\ pop.Species[i].ID = pop0.Species[i].ID
               /\ pop.Species[i].Orgs = pop0.Species[i].Orgs
               /\ pop.Species[i].Example = pop0.Species[i].Example

\* C8 as amended: rollPop leaves the input's Generation and its list of
\* species (order, IDs, Ages) as they were and does not touch the organisms
\* or the Example of a species that fails the gate; a living species is cut
\* in place to survivors drawn from its own organisms, one of them its Example.
C8_InputFrame ==
    Returned =>
        /\ pop.Generation = pop0.Generation
        /\ Len(pop.Species) = Len(pop0.Species)
        /\ \A i \in 1..Len(pop.Species) :
               /\ pop.Species[i].ID = pop0.Species[i].ID
               /\ pop.Species[i].Age = pop0.Species[i].Age
               /\ IF /\ i # bestSpecies
                     /\ pop.Species[i].Age - pop.Species[i].BestFitAge
                            >= settings.AgeToStagnation
                  THEN /\ pop.Species[i].Orgs = pop0.Species[i].Orgs
                       /\ pop.Species[i].Example = pop0.Species[i].Example
                  ELSE /\ Range(pop.Species[i].Orgs) \subseteq Range(pop0.Species[i].Orgs)
                       /\ pop.Species[i].Example \in Range(pop.Species[i].Orgs)

C8_Witness ==
    /\ Returned
    /\ \E i \in 1..Len(pop.Species) :
           /\ i # bestSpecies
           /\ pop.Species[i].Age - pop.Species[i].BestFitAge >= settings.AgeToStagnation
           /\ Len(pop.Species[i].Orgs) >= 1
    /\ \E i \in 1..Len(pop.Species) :
           Len(pop.Species[i].Orgs) < Len(pop0.Species[i].Orgs)

\* C9: no offspring of the step is made by crossover from the survivor of a
\* species that has exactly one survivor.
C9_NoCrossoverFromSingleton ==
    Rolling =>
        \A n \in 1..Len(living) :
            LET s == pop.Species[living[n]]
            IN  Len(s.Orgs) = 1 => s.Orgs[1].id \notin crossPicked

\* C9 as amended: the offspring a species with exactly one survivor makes in
\* its own slots are all clones; its survivor can still be a crossover parent
\* in the top-up or as the mate drawn from the whole population.
C9_SingletonSlotsCloneOnly ==
    Rolling =>
        \A n \in 1..Len(living) :
            LET s == pop.Species[living[n]]
            IN  Len(s.Orgs) = 1 => s.ID \notin slotCross

C9_Witness ==
    /\ pc = "offspring"
    /\ li = 1
    /\ Len(currS.Orgs) = 1
    /\ slot < cnt
    /\ Len(children) > EliteTaken(currS)

\* C10: MPC over one species of two organisms with 5 and 7 genes is 6.0.
FiveAndSeven ==
    /\ Len(mpcIn) = 1
    /\ Len(mpcIn[1]) = 2
    /\ {mpcIn[1][1].nodes + mpcIn[1][1].conns,
        mpcIn[1][2].nodes + mpcIn[1][2].conns} = {5, 7}

C10_MpcFiveSevenIsSix ==
    (mpcOut # <<>> /\ FiveAndSeven) => (mpcOut[2] # 0 /\ mpcOut[1] = 6 * mpcOut[2])

\* ---------------------------------------------------------------- claims C11-C20
TourDone == tourOut # <<>>

Distinct(species) ==
    \A a \in 1..Len(species) : \A b \in 1..Len(species) :
        a # b => species[a].ID # species[b].ID

\* C12: species IDs are pairwise distinct in every population; a species that
\* passes the gate is carried over under its own ID (and one more generation
\* of Age), so an ID of the input that is in the population returned names
\* the same species, and the ID of no dropped species comes back.
C12_DistinctAndCarried ==
    /\ Distinct(pop.Species)
    /\ Distinct(nextPop.Species)
    /\ pc = "prune" =>
           \A n \in 1..Len(living) :
               /\ nextPop.Species[n].ID = pop.Species[living[n]].ID
               /\ nextPop.Species[n].Age = pop.Species[living[n]].Age + 1
    /\ Returned =>
           \A j \in 1..Len(nextPop.Species) :
               nextPop.Species[j].ID \in SpeciesIDs(pop.Species) =>
                   \E n \in 1..Len(living) :
                       /\ pop.Species[living[n]].ID = nextPop.Species[j].ID
                       /\ pop.Species[living[n]].Age + 1 = nextPop.Species[j].Age

C12_Witness ==
    /\ Returned
    /\ nextPop.Generation = 3
    /\ \E j \in 1..Len(nextPop.Species) :
           nextPop.Species[j].ID \in SpeciesIDs(pop.Species)
    /\ \E j \in 1..Len(nextPop.Species) :
           nextPop.Species[j].ID \notin SpeciesIDs(pop.Species)

\* C13: a rollPop call makes exactly one inno.reset() call, and makes it
\* before every nextID, mutate, crossover and speciate call of that rollPop.
InRollPop == pc \in {"reset", "species", "offspring", "next", "prune"}

C13_ResetOnceAndFirst ==
    /\ [](resets <= 1 /\ (Returned => resets = 1))
    /\ [][(InRollPop /\ (nextId' # nextId \/ children' # children \/ nextPop' # nextPop))
              => (resets = 1 /\ resets' = 1)]_vars

C13_Witness ==
    /\ Returned
    /\ resets = 1
    /\ Len(nextPop.Species) > Len(living)
    /\ crossPicked # {}

\* C14: Generation is 1 in the population initialPopulation makes and each
\* rollPop returns a population of the input's Generation + 1: after n calls
\* Generation = n + 1.
C14_GenerationCounts ==
    /\ pc = "created" => (pop.Generation = 1 /\ steps = 0)
    /\ pc \in {"created", "ready"} => pop.Generation = steps + 1
    /\ Returned => /\ nextPop.Generation = pop0.Generation + 1
                   /\ nextPop.Generation = steps + 1

C14_Witness ==
    /\ Returned
    /\ steps = 2
    /\ nextPop.Generation = 3

\* C15: rollPop protects exactly the species owning the first organism, in
\* scan order, of the greatest primary fitness, for every assignment of
\* fitness values, all equal and all zero included.
GreatestFit(species) == MaxMemberFit(Flatten(species))

FirstMaxOwner(species) ==
    CHOOSE i \in 1..Len(species) :
        /\ \E k \in 1..Len(species[i].Orgs) :
               species[i].Orgs[k].fit = GreatestFit(species)
        /\ \A e \in 1..(i - 1) : \A k \in 1..Len(species[e].Orgs) :
               species[e].Orgs[k].fit # GreatestFit(species)

ScanDone == pc \in {"panicNilBest", "panicKeep", "reset", "species", "offspring",
                    "next", "prune", "done"}

C15_ProtectedIsFirstMax ==
    ScanDone => bestSpecies = FirstMaxOwner(pop0.Species)

\* C16: truncation to PopulationSize and the top-up happen only after every
\* living species has contributed its elite and its slot offspring.
C16_FixupAfterAllSpecies ==
    [][(pc = "offspring" /\ slot >= cnt /\ children' # children)
           => li = Len(living)]_vars

\* C17: a species that is not protected and has Age - BestFitAge >=
\* AgeToStagnation gets no entry in the next population, none of its
\* organisms is carried as an elite, and no tournament call returns one.
Stagnant(i) ==
    /\ i # bestSpecies
    /\ pop.Species[i].Age - pop.Species[i].BestFitAge >= settings.AgeToStagnation

OrgIds(orgs) == {o.id : o \in orgs}

C17_DroppedSpeciesGone ==
    Rolling =>
        \A i \in 1..Len(pop.Species) :
            Stagnant(i) =>
                /\ pop.Species[i].ID \notin SpeciesIDs(nextPop.Species)
                /\ OrgIds(Range(pop.Species[i].Orgs)) \cap OrgIds(Range(children)) = {}
                /\ OrgIds(Range(pop.Species[i].Orgs)) \cap OrgIds(champs) = {}

C17_Witness ==
    /\ pc = "offspring"
    /\ Cardinality(champs) = 2
    /\ children # <<>>
    /\ \E i \in 1..Len(pop.Species) : Stagnant(i) /\ pop.Species[i].Orgs # <<>>

\* C18: the budget of a living species is floor(currFitness / (sum of
\* currFitness over the living species) * PopulationSize); one is taken off
\* per elite copied and max(0, budget - elites) slots are iterated.
RECURSIVE SumCurrFitness(_)
SumCurrFitness(liv) ==
    IF liv = <<>> THEN 0
    ELSE pop.Species[Head(liv)].currFitness + SumCurrFitness(Tail(liv))

ClaimedSlots ==
    LET budget == (currS.currFitness * settings.PopulationSize)
                      \div SumCurrFitness(living)
        elites == IF settings.EliteCount < Len(currS.Orgs)
                  THEN settings.EliteCount ELSE Len(currS.Orgs)
    IN  IF budget - elites > 0 THEN budget - elites ELSE 0

C18_BudgetAndSlots ==
    /\ pc = "offspring" => /\ slot <= ClaimedSlots
                           /\ (cnt > 0 => cnt = ClaimedSlots)
                           /\ (cnt <= 0 => ClaimedSlots = 0)
                           /\ (slot >= cnt => slot = ClaimedSlots)
    /\ pc = "next" => slot = ClaimedSlots

C18_Witness ==
    /\ pc = "offspring"
    /\ Len(living) >= 2
    /\ cnt < 0
    /\ slot = 0
    /\ Len(children) = settings.PopulationSize

\* C19: on a pool that is not empty, with totFit the sum of the pool's
\* fitness, tournament returns the first organism whose cumulative fitness
\* reaches the target; it is a member of the pool, never unset.
Cumulative(orgs, k) == TotalFitness(SubSeq(orgs, 1, k))

TourPre == tourIn.orgs # <<>> /\ tourIn.totFit = TotalFitness(tourIn.orgs)

C19_FirstToReachTarget ==
    (TourDone /\ TourPre) =>
        \E k \in 1..Len(tourIn.orgs) :
            /\ tourOut[1] = tourIn.orgs[k]
            /\ Cumulative(tourIn.orgs, k) >= tourIn.tgt
            /\ \A j \in 1..(k - 1) : Cumulative(tourIn.orgs, j) < tourIn.tgt

C19_Witness ==
    /\ TourDone
    /\ TourPre
    /\ Len(tourIn.orgs) = 3
    /\ tourIn.orgs[1].fit > 0
    /\ tourOut[1] = tourIn.orgs[3]

\* C20: an Example is a member of its species when it is set (a survivor of
\* the cull, the founding child of speciate), so every species speciate sees
\* and every species returned has an Example, while the species of
\* initialPopulation has none.
C20_ExampleIsMember ==
    /\ Rolling =>
           \A n \in 1..Len(living) :
               pop.Species[living[n]].Example \in Range(pop.Species[living[n]].Orgs)
    /\ pc = "prune" =>
           \A j \in 1..Len(nextPop.Species) :
               j > Len(living) =>
                   nextPop.Species[j].Example = nextPop.Species[j].Orgs[1]
    /\ pc \in {"species", "offspring", "next", "prune", "done"} =>
           \A j \in 1..Len(nextPop.Species) : nextPop.Species[j].Example # NilOrg
    /\ pc = "created" => pop.Species[1].Example = NilOrg

C20_Witness ==
    /\ Returned
    /\ pop0.Species[1].Example = NilOrg
    /\ pop.Species[1].Example # NilOrg
    /\ Len(nextPop.Species) >= 2

====
